---- MODULE Spec2Model ----
(***************************************************************************)
(* Model of api-request-utils-rs (src/src/lib.rs): the traits             *)
(* RequestInfo, RequestModifiers, RequestDefaults and RequestHandler.     *)
(*                                                                         *)
(* Two specifications:                                                     *)
(*   Spec          two concurrent calls of get_request_handler /           *)
(*                 post_request_handler, each running assemble, send,      *)
(*                 read body, classify + decode, resolve_error;            *)
(*   SpecAssembly  the pure functions create_endpoint,                     *)
(*                 default_get_requestor and default_post_requestor        *)
(*                 applied to bounded inputs.                              *)
(*                                                                         *)
(* Strings that the code concatenates (URLs) are sequences of characters.  *)
(***************************************************************************)
EXTENDS Integers, Sequences, FiniteSets, TLC

VARIABLES
    BASE_URL,     \* RequestInfo::BASE_URL of the implementing client
    built,        \* SpecAssembly: the last value a pure function returned
    pc,           \* per call: position in get/post_request_handler
    args,         \* per call: the handler's arguments
    request,      \* per call: the RequestBuilder handed to request()
    send_result,  \* per call: response_result of request.send().await
    body_result,  \* per call: body_result of response.text().await
    response,     \* per call: the Result<T,RequestError<E>> request() returned
    handled,      \* per call: arguments default_error_resolver() was called with
    result,       \* per call: the Option<T> the handler function returned
    events        \* per call: history of the steps performed (ghost)

vars == <<BASE_URL, built, pc, args, request, send_result, body_result,
          response, handled, result, events>>

callVars == <<pc, args, request, send_result, body_result,
              response, handled, result, events>>

----------------------------------------------------------------------------
(* Bounds and input sets *)

\* longest base address / endpoint path drawn in SpecAssembly
MaxLen == 3

Alphabet == {"/", "a"}

Strs(n) == UNION {[1..k -> Alphabet] : k \in 0..n}

\* the two concurrent calls
Calls == {1, 2}

\* base address of the client in Spec
ExampleBase == <<"a", "p", "i">>

\* endpoints the calls of Spec use
Endpoints == {<<"g", "e", "t">>}

ParamKeys == {"q", "page"}

ParamValues == {"1", "null"}

\* every ParameterHashMap over ParamKeys
AllParams == UNION {[D -> ParamValues] : D \in SUBSET ParamKeys}

EmptyParams == [k \in {} |-> "1"]

\* parameter maps the calls of Spec use
CallParams == {EmptyParams, [k \in {"q"} |-> "1"]}

\* JSON payloads of POST calls
Jsons == {"{'name':'x'}"}

AllJsons == {"{'name':'x'}", "", "not json"}

\* status codes the transport may deliver: 1xx, 2xx (both ends), 3xx, 4xx, 5xx
Statuses == {100, 200, 204, 299, 300, 404, 500}

\* response bodies the transport may deliver
Bodies ==
    {"{'id':1}", "{'id':2}", "{'code':'not_found'}", "{'id':1,'code':'not_found'}",
     "not json"}

\* error.to_string() of a failed send
TransportErrors == {"connection refused", "dns error"}

----------------------------------------------------------------------------
(* Values *)

NoneYet == [kind |-> "none"]

Ok(v) == [kind |-> "Ok", value |-> v]

Err(e) == [kind |-> "Err", error |-> e]

Internal(msg) == [variant |-> "Internal", message |-> msg]

Json(e) == [variant |-> "Json", data |-> e]

Some(v) == [kind |-> "Some", value |-> v]

None == [kind |-> "None"]

----------------------------------------------------------------------------
(* RequestModifiers::create_endpoint *)

\* format!: the template's "{}" placeholders replaced, left to right, by the
\* arguments; every other character of the template copied; arguments are
\* not re-scanned.
RECURSIVE format(_, _)
format(template, fargs) ==
    IF template = <<>> THEN <<>>
    ELSE IF Len(template) >= 2 /\ template[1] = "{" /\ template[2] = "}"
         THEN Head(fargs) \o format(SubSeq(template, 3, Len(template)), Tail(fargs))
         ELSE <<template[1]>> \o format(Tail(template), fargs)

\* a joiner that normalises slashes at the seam
RECURSIVE trim_end(_)
trim_end(b) ==
    IF b /= <<>> /\ b[Len(b)] = "/" THEN trim_end(SubSeq(b, 1, Len(b) - 1)) ELSE b

RECURSIVE trim_start(_)
trim_start(e) ==
    IF e /= <<>> /\ e[1] = "/" THEN trim_start(Tail(e)) ELSE e

create_endpoint_normalising(endpoint) ==
    trim_end(BASE_URL) \o <<"/">> \o trim_start(endpoint)

create_endpoint(endpoint) ==
    format(<<"{", "}", "/", "{", "}">>, <<BASE_URL, endpoint>>)

----------------------------------------------------------------------------
(* reqwest::RequestBuilder, as far as the traits use it.  The field stages *)
(* is a history of the builder operations applied to the value (ghost).    *)

client_get(url) ==
    [method |-> "GET", url |-> url, headers |-> {}, query |-> {},
     body |-> NoneYet, stages |-> <<"base">>]

client_post(url) ==
    [method |-> "POST", url |-> url, headers |-> {}, query |-> {},
     body |-> NoneYet, stages |-> <<"base">>]

\* RequestBuilder::query(&parameters): appends the map's key/value pairs
query(request_builder, parameters) ==
    [request_builder EXCEPT
        !.query = @ \cup {<<k, parameters[k]>> : k \in DOMAIN parameters},
        !.stages = Append(@, "attach")]

\* RequestBuilder::body(json.to_owned())
body(request_builder, json) ==
    [request_builder EXCEPT !.body = Some(json), !.stages = Append(@, "attach")]

----------------------------------------------------------------------------
(* RequestDefaults *)

\* a header stage that injects an Authorization header
default_headers_auth(request_builder) ==
    [request_builder EXCEPT
        !.headers = @ \cup {<<"Authorization", " Bearer token">>},
        !.stages = Append(@, "headers")]

\* returns the builder it was given; only the history records the stage
default_headers(request_builder) ==
    [request_builder EXCEPT !.stages = Append(@, "headers")]

default_parameters(request_builder) ==
    [request_builder EXCEPT !.stages = Append(@, "parameters")]

default_post_requestor(endpoint, json) ==
    body(default_parameters(default_headers(client_post(create_endpoint(endpoint)))), json)

default_get_requestor(endpoint, parameters) ==
    query(default_parameters(default_headers(client_get(create_endpoint(endpoint)))), parameters)

----------------------------------------------------------------------------
(* The codec: serde_json::from_str at T = {id: int} and E = {code: string}. *)
(* Unknown fields are ignored, a missing field or malformed text fails.     *)

from_str_T(s) ==
    IF s \in {"{'id':1}", "{'id':1,'code':'not_found'}"}
    THEN [ok |-> TRUE, value |-> [id |-> 1]]
    ELSE IF s = "{'id':2}"
         THEN [ok |-> TRUE, value |-> [id |-> 2]]
         ELSE [ok |-> FALSE, value |-> [id |-> 0]]

from_str_E(s) ==
    IF s \in {"{'code':'not_found'}", "{'id':1,'code':'not_found'}"}
    THEN [ok |-> TRUE, value |-> [code |-> "not_found"]]
    ELSE [ok |-> FALSE, value |-> [code |-> ""]]

----------------------------------------------------------------------------
(* RequestHandler::request, one operator per step of its body *)

\* what request.send().await may evaluate to
SendResults ==
    {[ok |-> TRUE, status |-> s, error |-> ""] : s \in Statuses}
    \cup {[ok |-> FALSE, status |-> 0, error |-> e] : e \in TransportErrors}

\* what response.text().await may evaluate to
BodyResults ==
    {[ok |-> TRUE, text |-> b] : b \in Bodies} \cup {[ok |-> FALSE, text |-> ""]}

\* a classification that also takes 1xx and 3xx for success
is_success_below_400(status) == status < 400

\* StatusCode::is_success
is_success(status) == 200 <= status /\ status < 300

\* a send whose failure is not returned: the body is read all the same
match_response_result_continue(r) ==
    [pc |-> "sent", response |-> NoneYet]

\* a send that is tried again when it fails
match_response_result_retry(r) ==
    IF r.ok
    THEN [pc |-> "sent", response |-> NoneYet]
    ELSE [pc |-> "assembled", response |-> NoneYet]

\* match response_result { Err(error) => return ..., Ok(response) => ... }
match_response_result(r) ==
    IF r.ok
    THEN [pc |-> "sent", response |-> NoneYet]
    ELSE [pc |-> "returned", response |-> Err(Internal(r.error))]

\* a body read whose failure is replaced by the empty text (unwrap_or_default)
check_body_result_default(b) ==
    [pc |-> "read", response |-> NoneYet]

\* if body_result.is_err() { return ... }
check_body_result(b) ==
    IF b.ok
    THEN [pc |-> "read", response |-> NoneYet]
    ELSE [pc |-> "returned",
          response |-> Err(Internal("Error in reading response body"))]

\* a body taken from a response another call has already read (a shared cache)
body_string_cached(c) ==
    LET others == {d \in Calls \ {c} :
                      pc[d] \in {"read", "returned", "panicked", "done"}
                      /\ body_result[d] /= NoneYet /\ body_result[d].ok}
    IN  IF others /= {}
        THEN body_result[CHOOSE d \in others : TRUE].text
        ELSE body_result[c].text

\* let body_string = body_result.unwrap()
body_string(c) == body_result[c].text

\* match status.is_success() { true => Ok(from_str().unwrap()),
\*                             false => Err(Json(from_str().unwrap())) }
\* unwrap() of a failed parse panics: the call is left without a Result.
match_status(status, s) ==
    IF is_success(status)
    THEN IF from_str_T(s).ok
         THEN [pc |-> "returned", response |-> Ok(from_str_T(s).value)]
         ELSE [pc |-> "panicked", response |-> NoneYet]
    ELSE IF from_str_E(s).ok
         THEN [pc |-> "returned", response |-> Err(Json(from_str_E(s).value))]
         ELSE [pc |-> "panicked", response |-> NoneYet]

\* a resolver that notifies the handler of successes too
resolve_error_always_notifies(resp) ==
    IF resp.kind = "Ok"
    THEN [value |-> Some(resp.value), calls |-> <<resp>>]
    ELSE [value |-> None, calls |-> <<resp.error>>]

\* RequestHandler::resolve_error: the Option returned and the arguments the
\* default_error_resolver() closure is called with
resolve_error(resp) ==
    IF resp.kind = "Ok"
    THEN [value |-> Some(resp.value), calls |-> <<>>]
    ELSE [value |-> None, calls |-> <<resp.error>>]

----------------------------------------------------------------------------
(* Spec: get_request_handler / post_request_handler, two concurrent calls *)

CallArgs ==
    {[method |-> "GET", endpoint |-> e, parameters |-> p, json |-> ""] :
        e \in Endpoints, p \in CallParams}
    \cup {[method |-> "POST", endpoint |-> e, parameters |-> EmptyParams, json |-> j] :
        e \in Endpoints, j \in Jsons}

InitCalls ==
    /\ pc = [c \in Calls |-> "idle"]
    /\ args = [c \in Calls |-> NoneYet]
    /\ request = [c \in Calls |-> NoneYet]
    /\ send_result = [c \in Calls |-> NoneYet]
    /\ body_result = [c \in Calls |-> NoneYet]
    /\ response = [c \in Calls |-> NoneYet]
    /\ handled = [c \in Calls |-> <<>>]
    /\ result = [c \in Calls |-> NoneYet]
    /\ events = [c \in Calls |-> <<>>]

Init ==
    /\ BASE_URL = ExampleBase
    /\ built = [op |-> "none"]
    /\ InitCalls

\* let request = self.default_get_requestor(endpoint, parameters);  (or post)
Assemble(c) ==
    /\ pc[c] = "idle"
    /\ \E a \in CallArgs :
        /\ args' = [args EXCEPT ![c] = a]
        /\ request' = [request EXCEPT ![c] =
                IF a.method = "GET"
                THEN default_get_requestor(a.endpoint, a.parameters)
                ELSE default_post_requestor(a.endpoint, a.json)]
    /\ pc' = [pc EXCEPT ![c] = "assembled"]
    /\ events' = [events EXCEPT ![c] = Append(@, "assemble")]
    /\ UNCHANGED <<BASE_URL, built, send_result, body_result, response, handled, result>>

\* let response_result = request.send().await; match response_result
Send(c) ==
    /\ pc[c] = "assembled"
    /\ \E r \in SendResults :
        /\ send_result' = [send_result EXCEPT ![c] = r]
        /\ pc' = [pc EXCEPT ![c] = match_response_result(r).pc]
        /\ response' = [response EXCEPT ![c] = match_response_result(r).response]
    /\ events' = [events EXCEPT ![c] = Append(@, "send")]
    /\ UNCHANGED <<BASE_URL, built, args, request, body_result, handled, result>>

\* let status = response.status(); let body_result = response.text().await;
ReadBody(c) ==
    /\ pc[c] = "sent"
    /\ \E b \in BodyResults :
        /\ body_result' = [body_result EXCEPT ![c] = b]
        /\ pc' = [pc EXCEPT ![c] = check_body_result(b).pc]
        /\ response' = [response EXCEPT ![c] = check_body_result(b).response]
    /\ events' = [events EXCEPT ![c] = Append(@, "text")]
    /\ UNCHANGED <<BASE_URL, built, args, request, send_result, handled, result>>

\* match status.is_success() { ... }
Decode(c) ==
    /\ pc[c] = "read"
    /\ LET m == match_status(send_result[c].status, body_string(c)) IN
        /\ pc' = [pc EXCEPT ![c] = m.pc]
        /\ response' = [response EXCEPT ![c] = m.response]
    /\ events' = [events EXCEPT ![c] = @ \o <<"classify", "decode">>]
    /\ UNCHANGED <<BASE_URL, built, args, request, send_result, body_result, handled, result>>

\* self.resolve_error(response)
Resolve(c) ==
    /\ pc[c] = "returned"
    /\ LET r == resolve_error(response[c]) IN
        /\ handled' = [handled EXCEPT ![c] = @ \o r.calls]
        /\ result' = [result EXCEPT ![c] = r.value]
        /\ events' = [events EXCEPT ![c] =
                @ \o [i \in 1..Len(r.calls) |-> "handler"] \o <<"return">>]
    /\ pc' = [pc EXCEPT ![c] = "done"]
    /\ UNCHANGED <<BASE_URL, built, args, request, send_result, body_result, response>>

Next ==
    \E c \in Calls :
        \/ Assemble(c)
        \/ Send(c)
        \/ ReadBody(c)
        \/ Decode(c)
        \/ Resolve(c)

Spec == Init /\ [][Next]_vars

----------------------------------------------------------------------------
(* SpecAssembly: the pure functions applied to bounded inputs *)

InitAssembly ==
    /\ BASE_URL \in Strs(MaxLen)
    /\ built = [op |-> "none"]
    /\ InitCalls

CreateEndpoint ==
    /\ built.op = "none"
    /\ \E e \in Strs(MaxLen) :
        built' = [op |-> "create_endpoint", endpoint |-> e, url |-> create_endpoint(e)]
    /\ UNCHANGED <<BASE_URL, callVars>>

GetRequestor ==
    /\ built.op = "none"
    /\ \E e \in Strs(MaxLen), p \in AllParams :
        built' = [op |-> "get", endpoint |-> e, parameters |-> p,
                  rb |-> default_get_requestor(e, p)]
    /\ UNCHANGED <<BASE_URL, callVars>>

PostRequestor ==
    /\ built.op = "none"
    /\ \E e \in Strs(MaxLen), j \in AllJsons :
        built' = [op |-> "post", endpoint |-> e, json |-> j,
                  rb |-> default_post_requestor(e, j)]
    /\ UNCHANGED <<BASE_URL, callVars>>

NextAssembly ==
    \/ CreateEndpoint
    \/ GetRequestor
    \/ PostRequestor

SpecAssembly == InitAssembly /\ [][NextAssembly]_vars

----------------------------------------------------------------------------
(* Vocabulary of the properties *)

\* request() has ended for call c: it returned a Result or it panicked
Finished(c) == pc[c] \in {"returned", "panicked", "done"}

SendDone(c) == pc[c] \notin {"idle", "assembled"}

SendFailed(c) == SendDone(c) /\ ~send_result[c].ok

BodyReadDone(c) == SendDone(c) /\ body_result[c] /= NoneYet

BodyReadFailed(c) == BodyReadDone(c) /\ ~body_result[c].ok

\* send and body read both succeeded and request() has ended
Decoded(c) ==
    Finished(c) /\ SendDone(c) /\ send_result[c].ok
    /\ BodyReadDone(c) /\ body_result[c].ok

SuccessClass == 200..299

\* the body does not parse as the type expected for the status class
ParseFails(c) ==
    IF send_result[c].status \in SuccessClass
    THEN ~from_str_T(body_result[c].text).ok
    ELSE ~from_str_E(body_result[c].text).ok

Occurs(e, c) == \E i \in 1..Len(events[c]) : events[c][i] = e

NoDecodeWork(c) == ~Occurs("classify", c) /\ ~Occurs("decode", c)

\* the variant of the value request() returned
OutcomeTag(c) ==
    IF response[c].kind = "Ok" THEN "Ok" ELSE response[c].error.variant

\* the outcome tags of the specification that hold of call c's outcome
OutcomeTags(c) ==
    IF response[c] = NoneYet THEN {}
    ELSE IF response[c].kind = "Ok" THEN {"Success"}
    ELSE IF response[c].error.variant = "Json" THEN {"ErrorPayload"}
    ELSE IF SendFailed(c) THEN {"TransportError"}
    ELSE {"BodyReadError"}

IsPrefix(p, q) == Len(p) <= Len(q) /\ SubSeq(q, 1, Len(p)) = p

----------------------------------------------------------------------------
(* C1 *)

\* C1: when send and body read succeed but the body does not parse as the
\* type expected for its status class, request() returns a typed error to its
\* caller (it never panics), and for a 2xx status never the Json error payload.
C1_DecodeFailureIsTypedError ==
    \A c \in Calls :
        (Decoded(c) /\ ParseFails(c)) =>
            /\ pc[c] /= "panicked"
            /\ response[c] /= NoneYet
            /\ response[c].kind = "Err"
            /\ (send_result[c].status \in SuccessClass
                    => response[c].error.variant /= "Json")

----------------------------------------------------------------------------
(* C2 *)

\* C2: every call of request() that has ended, whatever the transport result,
\* body-read result, status and body, carries exactly one outcome tag.
C2_ExactlyOneTag ==
    \A c \in Calls : Finished(c) => Cardinality(OutcomeTags(c)) = 1

----------------------------------------------------------------------------
(* C3 *)

\* C3: after a successful send and body read the outcome is decided by the
\* binary status split alone: 2xx and a body parsing as T gives Ok(T value),
\* any other status and a body parsing as E gives Err(Json(E value)), and two
\* calls with the same body and the same status class end alike.
C3_StatusSplitDecides ==
    \A c \in Calls :
        Decoded(c) =>
            LET st == send_result[c].status
                s  == body_result[c].text
            IN  /\ (st \in SuccessClass /\ from_str_T(s).ok)
                        => response[c] = Ok(from_str_T(s).value)
                /\ (st \notin SuccessClass /\ from_str_E(s).ok)
                        => response[c] = Err(Json(from_str_E(s).value))
                /\ (st = 200 /\ s = "{'id':1}") => response[c] = Ok([id |-> 1])
                /\ (st = 404 /\ s = "{'code':'not_found'}")
                        => response[c] = Err(Json([code |-> "not_found"]))
                /\ \A d \in Calls :
                        (/\ Decoded(d)
                         /\ body_result[d].text = s
                         /\ (send_result[d].status \in SuccessClass
                                <=> st \in SuccessClass))
                        => /\ response[d] = response[c]
                           /\ (pc[d] = "panicked" <=> pc[c] = "panicked")

\* a 1xx response ended as an error payload while a 2xx response ended as a success
C3_Witness ==
    \E c, d \in Calls :
        /\ Decoded(c) /\ send_result[c].status = 204
        /\ response[c] = Ok([id |-> 2])
        /\ Decoded(d) /\ send_result[d].status = 100
        /\ response[d] = Err(Json([code |-> "not_found"]))

----------------------------------------------------------------------------
(* C4 *)

\* C4: when the send fails request() returns Err(Internal(error)) at once:
\* no body read, no status classification and no decode happen in that call.
C4_TransportErrorImmediate ==
    \A c \in Calls :
        SendFailed(c) =>
            /\ pc[c] \in {"returned", "done"}
            /\ response[c] = Err(Internal(send_result[c].error))
            /\ body_result[c] = NoneYet
            /\ ~Occurs("text", c)
            /\ NoDecodeWork(c)

\* a GET call and a POST call whose sends both failed
C4_Witness ==
    \E c, d \in Calls :
        /\ SendFailed(c) /\ args[c].method = "GET" /\ pc[c] = "returned"
        /\ SendFailed(d) /\ args[d].method = "POST" /\ pc[d] = "done"

----------------------------------------------------------------------------
(* C5 *)

----------------------------------------------------------------------------
(* C6 *)

\* C6: resolve_error returns Some(v) for Ok(v) without invoking the handler;
\* for any Err(e) it invokes the handler exactly once, with e, and returns
\* None; before it runs the handler has not been invoked at all.
C6_ResolveError ==
    \A c \in Calls :
        /\ pc[c] /= "done" => (handled[c] = <<>> /\ result[c] = NoneYet)
        /\ pc[c] = "done" =>
            /\ response[c].kind = "Ok" =>
                (result[c] = Some(response[c].value) /\ handled[c] = <<>>)
            /\ response[c].kind = "Err" =>
                (result[c] = None /\ handled[c] = <<response[c].error>>)

\* one call resolved a success, the other an error payload
C6_Witness ==
    \E c, d \in Calls :
        /\ pc[c] = "done" /\ result[c] = Some([id |-> 1]) /\ handled[c] = <<>>
        /\ pc[d] = "done" /\ result[d] = None
        /\ handled[d] = <<Json([code |-> "not_found"])>>

----------------------------------------------------------------------------
(* C7 *)

\* C7: create_endpoint(P) is exactly BASE_URL, one "/", then P: nothing is
\* trimmed, escaped or inserted, whatever slashes B ends or P starts with.
C7_CreateEndpoint ==
    built.op = "create_endpoint" =>
        LET B == BASE_URL
            P == built.endpoint
            u == built.url
        IN  /\ Len(u) = Len(B) + 1 + Len(P)
            /\ \A i \in 1..Len(B) : u[i] = B[i]
            /\ u[Len(B) + 1] = "/"
            /\ \A i \in 1..Len(P) : u[Len(B) + 1 + i] = P[i]

\* a base ending in "/" joined with a path starting with "/"
C7_Witness ==
    /\ built.op = "create_endpoint"
    /\ BASE_URL = <<"a", "/">>
    /\ built.endpoint = <<"/", "a">>
    /\ built.url = <<"a", "/", "/", "/", "a">>

----------------------------------------------------------------------------
(* C8 *)

\* C8: the default requestors apply base construction, header stage,
\* parameter stage and attachment in that order, each to the value the
\* previous one returned, and with the default stages the result is the
\* method, the resolved URL and the caller's parameters (GET) or body (POST),
\* with nothing added.
C8_DefaultAssembly ==
    built.op \in {"get", "post"} =>
        LET rb == built.rb IN
            /\ rb.stages = <<"base", "headers", "parameters", "attach">>
            /\ rb.url = BASE_URL \o <<"/">> \o built.endpoint
            /\ rb.headers = {}
            /\ built.op = "get" =>
                /\ rb.method = "GET"
                /\ \A k \in ParamKeys, v \in ParamValues :
                    <<k, v>> \in rb.query
                        <=> (k \in DOMAIN built.parameters /\ built.parameters[k] = v)
                /\ Cardinality(rb.query) = Cardinality(DOMAIN built.parameters)
                /\ rb.body = NoneYet
            /\ built.op = "post" =>
                /\ rb.method = "POST"
                /\ rb.body = Some(built.json)
                /\ rb.query = {}

\* a GET descriptor with two parameters for an endpoint with a leading slash
C8_Witness ==
    /\ built.op = "get"
    /\ built.endpoint = <<"/", "a">>
    /\ built.parameters = [k \in ParamKeys |-> IF k = "q" THEN "1" ELSE "null"]
    /\ built.rb.query = {<<"q", "1">>, <<"page", "null">>}

----------------------------------------------------------------------------
(* C9 *)

\* what request() yields for one transport response, read off the source's
\* five return points (the panic included)
OutcomeOf(sr, br) ==
    IF ~sr.ok THEN [panicked |-> FALSE, response |-> Err(Internal(sr.error))]
    ELSE IF ~br.ok
    THEN [panicked |-> FALSE,
          response |-> Err(Internal("Error in reading response body"))]
    ELSE IF sr.status \in SuccessClass
    THEN IF from_str_T(br.text).ok
         THEN [panicked |-> FALSE, response |-> Ok(from_str_T(br.text).value)]
         ELSE [panicked |-> TRUE, response |-> NoneYet]
    ELSE IF from_str_E(br.text).ok
         THEN [panicked |-> FALSE, response |-> Err(Json(from_str_E(br.text).value))]
         ELSE [panicked |-> TRUE, response |-> NoneYet]

CallState(c) ==
    <<pc[c], args[c], request[c], send_result[c], body_result[c],
      response[c], handled[c], result[c], events[c]>>

OwnResponseDecides ==
    \A c \in Calls :
        Finished(c) =>
            LET o == OutcomeOf(send_result[c],
                               IF BodyReadDone(c) THEN body_result[c]
                               ELSE [ok |-> FALSE, text |-> ""])
            IN  /\ response[c] = o.response
                /\ (pc[c] = "panicked") = o.panicked

StepsOfOthersLeaveCallAlone ==
    \A c \in Calls :
        (\E d \in Calls \ {c} : pc'[d] /= pc[d]) => CallState(c)' = CallState(c)

\* C9: under every interleaving of two calls, each call's outcome is the
\* function of its own transport response, and a step of one call changes
\* nothing of the other call.
C9_IndependentCalls ==
    [](OwnResponseDecides) /\ [][StepsOfOthersLeaveCallAlone]_vars

\* two calls with the same descriptor that ended with different outcomes
C9_Witness ==
    /\ args[1] = args[2]
    /\ pc[1] = "done" /\ pc[2] = "done"
    /\ response[1] = Ok([id |-> 1])
    /\ response[2] = Err(Json([code |-> "not_found"]))
    /\ body_result[1] = body_result[2]

----------------------------------------------------------------------------
(* C10 *)

\* the complete histories a call of get/post_request_handler can have
Histories ==
    {<<"assemble", "send", "handler", "return">>,
     <<"assemble", "send", "text", "handler", "return">>,
     <<"assemble", "send", "text", "classify", "decode", "return">>,
     <<"assemble", "send", "text", "classify", "decode", "handler", "return">>}

\* C10: a handler call runs assemble, one send, classify/decode, then error
\* resolution; the handler is invoked at most once, only after request() has
\* returned its Result and before the call returns; the call returns Some(v)
\* exactly for Ok(v) and None exactly when the handler was invoked.
C10_HandlerOrder ==
    \A c \in Calls :
        /\ \E h \in Histories : IsPrefix(events[c], h)
        /\ Occurs("handler", c) =>
            (response[c] /= NoneYet /\ handled[c] = <<response[c].error>>)
        /\ Len(handled[c]) <= 1
        /\ Occurs("return", c) <=> pc[c] = "done"
        /\ pc[c] = "done" =>
            /\ result[c].kind = "Some" <=> response[c].kind = "Ok"
            /\ result[c].kind = "Some" => result[c].value = response[c].value
            /\ result[c] = None <=> Occurs("handler", c)
            /\ result[c] = None <=> Len(handled[c]) = 1
        /\ pc[c] /= "done" => result[c] = NoneYet

\* a POST call that returned None after its handler ran, beside a GET call
\* that returned Some
C10_Witness ==
    \E c, d \in Calls :
        /\ pc[c] = "done" /\ args[c].method = "POST" /\ result[c] = None
        /\ events[c] = <<"assemble", "send", "text", "classify", "decode",
                         "handler", "return">>
        /\ pc[d] = "done" /\ args[d].method = "GET" /\ result[d].kind = "Some"

====
